---- MODULE Spec2Model ----
(***************************************************************************)
(* Recipe REST API: the five request handlers of                           *)
(* controllers/recipeController.js over one "recipes" collection.          *)
(*                                                                         *)
(* The collection is a sequence of documents in the store's natural        *)
(* order.  A request occupies a slot from the moment the router            *)
(* dispatches it until its handler has sent the response; every awaited    *)
(* store call of a handler is one step, so steps of different requests     *)
(* interleave exactly at the awaits.                                       *)
(***************************************************************************)
EXTENDS Integers, Sequences, FiniteSets, TLC

(***************************************************************************)
(* Bounds of the model.                                                    *)
(***************************************************************************)
\* ObjectIds the driver can generate (documents ever constructed).
MaxId == 3

\* The most records the collection holds when the server starts.
MaxStock == 12

(***************************************************************************)
(* Program constants.                                                      *)
(***************************************************************************)
\* const { page = 1, size = 10 } = req.query
DefaultPage == 1
DefaultSize == 10

(***************************************************************************)
(* JavaScript values that reach arithmetic: a query parameter is absent    *)
(* (undefined) or a text; arithmetic yields an integer, NaN or an          *)
(* infinity.  Texts are sequences of one-character strings.                *)
(***************************************************************************)
Undef == [t |-> "undef", s |-> <<>>, n |-> 0]
Str(s) == [t |-> "str", s |-> s, n |-> 0]
Num(n) == [t |-> "num", s |-> <<>>, n |-> n]
NaN == [t |-> "nan", s |-> <<>>, n |-> 0]
Inf(sign) == [t |-> "inf", s |-> <<>>, n |-> sign]
JsonNull == [t |-> "null", s |-> <<>>, n |-> 0]

DigitVal(c) ==
  CASE c = "0" -> 0 [] c = "1" -> 1 [] c = "2" -> 2 [] c = "3" -> 3
    [] c = "4" -> 4 [] c = "5" -> 5 [] c = "6" -> 6 [] c = "7" -> 7
    [] c = "8" -> 8 [] c = "9" -> 9 [] OTHER -> -1

\* Value of a digit string, -1 when some character is no digit.
RECURSIVE DigitsVal(_)
DigitsVal(s) ==
  IF Len(s) = 0 THEN 0
  ELSE LET hi == DigitsVal(SubSeq(s, 1, Len(s) - 1))
           d  == DigitVal(s[Len(s)])
       IN  IF hi < 0 \/ d < 0 THEN -1 ELSE 10 * hi + d

\* ToNumber on a text: "" is 0, an optionally signed digit string is its
\* value, everything else is NaN.
StringToNumber(s) ==
  IF Len(s) = 0 THEN Num(0)
  ELSE LET neg  == s[1] = "-"
           body == IF neg THEN SubSeq(s, 2, Len(s)) ELSE s
           v    == DigitsVal(body)
       IN  IF Len(body) = 0 \/ v < 0 THEN NaN
           ELSE Num(IF neg THEN 0 - v ELSE v)

\* ToNumber: the coercion applied by -, *, / and Number().
ToNumber(v) ==
  CASE v.t = "str" -> StringToNumber(v.s)
    [] v.t = "undef" -> NaN
    [] OTHER -> v

\* a - b and a * b on coerced operands (operands here are never infinite).
JsSub(a, b) ==
  LET x == ToNumber(a) y == ToNumber(b)
  IN  IF x.t = "num" /\ y.t = "num" THEN Num(x.n - y.n) ELSE NaN

JsMul(a, b) ==
  LET x == ToNumber(a) y == ToNumber(b)
  IN  IF x.t = "num" /\ y.t = "num" THEN Num(x.n * y.n) ELSE NaN

\* ceil(a / b) for integers a >= 0, b > 0.
CeilDiv(a, b) == (a + b - 1) \div b

\* Math.ceil(a / b): a is a count (>= 0), b a coerced query value.
JsCeilDivGuarded(a, b) ==
  LET y == ToNumber(b)
  IN  IF y.t # "num" THEN NaN
      ELSE IF y.n > 0 THEN Num(CeilDiv(a, y.n))
      ELSE IF y.n < 0 THEN Num(0 - (a \div (0 - y.n)))
      ELSE Num(0)

JsCeilDiv(a, b) ==
  LET y == ToNumber(b)
  IN  IF y.t # "num" THEN NaN
      ELSE IF y.n > 0 THEN Num(CeilDiv(a, y.n))
      ELSE IF y.n < 0 THEN Num(0 - (a \div (0 - y.n)))
      ELSE IF a = 0 THEN NaN ELSE Inf(1)

\* JSON.stringify of a value: NaN and the infinities become null.
ToJson(v) == IF v.t \in {"nan", "inf"} THEN JsonNull ELSE v

(***************************************************************************)
(* The Recipe schema and what the model layer does with a request body.    *)
(* A body is a record of optional fields (<<>> absent, <<v>> present);     *)
(* cookingTime arrives as a JSON number or a JSON string.                  *)
(***************************************************************************)
Body(name, ingredients, instructions, cookingTime) ==
  [name |-> name, ingredients |-> ingredients,
   instructions |-> instructions, cookingTime |-> cookingTime]

EmptyBody == Body(<<>>, <<>>, <<>>, <<>>)

\* cookingTime: { type: Number }: a number stays, a numeric text is
\* converted, any other text is a cast error (<<>>).
CastNumber(v) ==
  LET x == ToNumber(v)
  IN  IF x.t = "num" THEN <<x.n>> ELSE <<>>

CastFails(b) == b.cookingTime # <<>> /\ CastNumber(b.cookingTime[1]) = <<>>

\* ingredients: { type: [String] }: an array path defaults to [].
IngredientsOf(b) == IF b.ingredients = <<>> THEN <<>> ELSE b.ingredients[1]

\* required: true on the four business fields, as document validation runs
\* it in save(); strictArrays tells whether the installed model layer lets
\* an empty array satisfy `required`.
RequiredFails(b, strictArrays) ==
  \/ b.name = <<>>
  \/ b.instructions = <<>>
  \/ b.cookingTime = <<>>
  \/ strictArrays /\ Len(IngredientsOf(b)) = 0

Invalid(b, strictArrays) == CastFails(b) \/ RequiredFails(b, strictArrays)

\* new Recipe(req.body) once it has passed validation: the body's fields
\* cast to the schema's types, plus _id, createdAt (default Date.now) and
\* the version key.
Document(b, id, t) ==
  [id |-> id,
   name |-> b.name[1],
   ingredients |-> IngredientsOf(b),
   instructions |-> b.instructions[1],
   cookingTime |-> CastNumber(b.cookingTime[1])[1],
   createdAt |-> t,
   v |-> 0]

\* The update document of findByIdAndUpdate: the supplied paths are $set,
\* everything else is left alone.
ApplyUpdateReplace(d, b) ==
  [d EXCEPT !.name = IF b.name # <<>> THEN b.name[1] ELSE "",
            !.ingredients = IF b.ingredients # <<>> THEN b.ingredients[1] ELSE <<>>,
            !.instructions = IF b.instructions # <<>> THEN b.instructions[1] ELSE "",
            !.cookingTime = IF b.cookingTime # <<>>
                            THEN CastNumber(b.cookingTime[1])[1] ELSE 0]

ApplyUpdate(d, b) ==
  [d EXCEPT !.name = IF b.name # <<>> THEN b.name[1] ELSE @,
            !.ingredients = IF b.ingredients # <<>> THEN b.ingredients[1] ELSE @,
            !.instructions = IF b.instructions # <<>> THEN b.instructions[1] ELSE @,
            !.cookingTime = IF b.cookingTime # <<>>
                            THEN CastNumber(b.cookingTime[1])[1] ELSE @]

\* { new: true }: findByIdAndUpdate hands back the document as it is after
\* the update.
ReturnedBefore(before, after) == before

Returned(before, after) == after

(***************************************************************************)
(* Identifiers.  An ObjectId is a positive integer; the :id path segment   *)
(* is a text that either is the 24-hex-digit form of an ObjectId or is     *)
(* not.                                                                    *)
(***************************************************************************)
HexPath(n) == [hex |-> TRUE, n |-> n]
MalformedPath == [hex |-> FALSE, n |-> 0]

\* Casting the path segment to the _id type: <<id>>, or <<>> (cast error).
CastObjectId(p) == IF p.hex THEN <<p.n>> ELSE <<>>

(***************************************************************************)
(* Queries on the collection, a sequence of documents in natural order.    *)
(***************************************************************************)
Ids(docs) == {docs[i].id : i \in 1..Len(docs)}

\* findById: <<d>> or <<>> (null).
FindAny(docs, id) == IF Len(docs) = 0 THEN <<>> ELSE <<docs[1]>>

FindById(docs, id) ==
  LET hit == {i \in 1..Len(docs) : docs[i].id = id}
  IN  IF hit = {} THEN <<>> ELSE <<docs[CHOOSE i \in hit : TRUE]>>

WithoutNone(docs, id) == docs

Without(docs, id) == SelectSeq(docs, LAMBDA d : d.id # id)

Replace(docs, id, d) == [i \in 1..Len(docs) |-> IF docs[i].id = id THEN d ELSE docs[i]]

Min(a, b) == IF a < b THEN a ELSE b

\* The cursor of find().skip(k).limit(n) for integers k >= 0 and n: a
\* limit of 0 is no limit, a negative limit is its absolute value.
SkipLimit(docs, k, n) ==
  LET lim == IF n = 0 THEN Len(docs) ELSE IF n < 0 THEN 0 - n ELSE n
  IN  SubSeq(docs, k + 1, Min(Len(docs), k + lim))

\* Whether the store accepts the query: skip and limit must be numbers and
\* skip must not be negative.
QueryRejected(skip, limit) ==
  \/ skip.t # "num"
  \/ limit.t # "num"
  \/ skip.n < 0

(***************************************************************************)
(* Requests the clients send.                                              *)
(***************************************************************************)
Soup == Body(<<"Soup">>, << <<"water", "salt">> >>, <<"Boil.">>, <<Num(10)>>)
Stew == Body(<<"Stew">>, << <<"water", "salt">> >>, <<"Boil.">>, <<Num(15)>>)

\* Bodies of POST /recipes: two complete ones, one without name, one
\* without ingredients, one whose cookingTime is no number.
CreateBodies ==
  {Soup, Stew,
   [Soup EXCEPT !.name = <<>>],
   [Soup EXCEPT !.ingredients = <<>>],
   [Soup EXCEPT !.cookingTime = <<Str(<<"x">>)>>]}

\* Bodies of PUT /recipes/:id: one field, two fields, none, and one whose
\* cookingTime is no number.
UpdateBodies ==
  {[EmptyBody EXCEPT !.cookingTime = <<Num(15)>>],
   [EmptyBody EXCEPT !.name = <<"Stew">>],
   [EmptyBody EXCEPT !.name = <<"Soup">>, !.cookingTime = <<Num(10)>>],
   EmptyBody,
   [EmptyBody EXCEPT !.cookingTime = <<Str(<<"x">>)>>]}

\* Path segments: the text of every ObjectId the driver can generate, and
\* one text that is no ObjectId.
Paths == {HexPath(n) : n \in 1..MaxId} \cup {MalformedPath}

DigitChar(d) == <<"0", "1", "2", "3", "4", "5", "6", "7", "8", "9">>[d + 1]

\* ?page= and ?size= : absent, or a text.
PageParams == {Undef} \cup {Str(<<DigitChar(n)>>) : n \in 0..MaxId}
SizeParams == {Undef, Str(<<"0">>), Str(<<"1">>), Str(<<"2">>),
               Str(<<"-", "1">>), Str(<<"x">>)}

(***************************************************************************)
(* State.                                                                  *)
(***************************************************************************)
VARIABLES
  store,         \* the recipes collection, in natural order
  nextId,        \* the next ObjectId the driver generates
  now,           \* the last reading of Date.now (every reading is later)
  strictArrays,  \* whether `required` rejects an empty array (fixed by the
                 \* installed model layer)
  req,           \* per slot: the request and its handler's locals
  res,           \* per slot: the response written so far
  deleted,       \* history: ids whose DELETE answered 200
  fresh,         \* history: per id, the record POST answered, until that
                 \* id is updated or deleted
  scan,          \* what a client paging through the collection has
                 \* collected since the collection last changed
  walk           \* how far a client has come through the walk POST, list,
                 \* PUT, DELETE, GET on a new collection, and the id its
                 \* POST was answered

vars == <<store, nextId, now, strictArrays, req, res, deleted, fresh, scan, walk>>

Slots == {1, 2}

NoRequest ==
  [op |-> "none", pc |-> "idle", id |-> MalformedPath, body |-> EmptyBody,
   page |-> Undef, size |-> Undef, newId |-> 0, createdAt |-> 0,
   recipes |-> <<>>, calls |-> 0, mixed |-> "none", overtaken |-> FALSE]

NoResponse ==
  [status |-> 0, message |-> "", error |-> "", doc |-> <<>>,
   recipes |-> <<>>, totalRecipes |-> 0, page |-> Undef, totalPages |-> Undef,
   sent |-> 0]

NoScan == [size |-> 0, next |-> 0, total |-> 0, seen |-> <<>>]

NoWalk == [n |-> 0, id |-> 0]

Init ==
  /\ store = <<>>
  /\ nextId = 1
  /\ now = 0
  /\ strictArrays \in BOOLEAN
  /\ req = [r \in Slots |-> NoRequest]
  /\ res = [r \in Slots |-> NoResponse]
  /\ deleted = {}
  /\ fresh = [i \in 1..MaxId |-> <<>>]
  /\ scan = NoScan
  /\ walk = NoWalk

Free(r) == req[r].pc \in {"idle", "done"}

(***************************************************************************)
(* Bookkeeping shared by the handlers.                                     *)
(***************************************************************************)
\* res.json(body): one more body has gone out as this response.
Json(a) == [a EXCEPT !.sent = @ + 1]

\* res.status(500).json({ message: 'Something went wrong!' }) of the
\* error-handling middleware.
SomethingWentWrong ==
  Json([NoResponse EXCEPT !.status = 500, !.message = "Something went wrong!"])

\* res.status(code).json(...) for the bodies the handlers send.
FailureGeneric(message, error) ==
  Json([NoResponse EXCEPT !.status = 500, !.message = "Something went wrong!"])

Failure(message, error) ==
  Json([NoResponse EXCEPT !.status = 500, !.message = message, !.error = error])

NotFoundFallsThrough ==
  Json(Json([NoResponse EXCEPT !.status = 404, !.message = "Recipe not found"]))

NotFound == Json([NoResponse EXCEPT !.status = 404, !.message = "Recipe not found"])

Record(status, d) == Json([NoResponse EXCEPT !.status = status, !.doc = <<d>>])

\* Slot r's awaited call has settled and r moves on with `next`.  History
\* kept per request: calls counts its awaited store calls; if this call
\* reached the store, every other request in flight has been overtaken,
\* and one waiting between its two store accesses has had a read or a
\* write of another request come in between (mixed).
Settle(r, next, reached, wrote) ==
  req' = [q \in Slots |->
            IF q = r THEN [next EXCEPT !.calls = req[r].calls + 1]
            ELSE IF reached /\ req[q].pc = "count"
              THEN [req[q] EXCEPT !.overtaken = TRUE,
                                  !.mixed = IF wrote THEN "write"
                                            ELSE IF @ = "none" THEN "read" ELSE @]
            ELSE IF reached /\ req[q].pc \notin {"idle", "done"}
              THEN [req[q] EXCEPT !.overtaken = TRUE]
            ELSE req[q]]

Done(rq) == [rq EXCEPT !.pc = "done"]

Begin(r, rq) ==
  /\ Free(r)
  /\ req' = [req EXCEPT ![r] = rq]
  /\ res' = [res EXCEPT ![r] = NoResponse]

(***************************************************************************)
(* createRecipe                                                            *)
(***************************************************************************)
\* new Recipe(req.body): the document gets its _id and createdAt here,
\* before save() is awaited.
createRecipe(r, b) ==
  /\ nextId <= MaxId
  /\ Begin(r, [NoRequest EXCEPT !.op = "create", !.pc = "save", !.body = b,
                                !.newId = nextId, !.createdAt = now + 1])
  /\ nextId' = nextId + 1
  /\ now' = now + 1
  /\ UNCHANGED <<store, strictArrays, deleted, fresh>>

\* await recipe.save() settles; then res.status(201).json(recipe), or the
\* catch block.
saveDone(r, fault) ==
  /\ req[r].pc = "save"
  /\ LET rq == req[r]
         d  == Document(rq.body, rq.newId, rq.createdAt)
     IN  IF Invalid(rq.body, strictArrays)
         THEN /\ res' = [res EXCEPT ![r] =
                           Failure("Error creating recipe", "ValidationError")]
              /\ Settle(r, Done(rq), FALSE, FALSE)
              /\ UNCHANGED <<store, fresh>>
         ELSE IF fault
         THEN /\ res' = [res EXCEPT ![r] =
                           Failure("Error creating recipe", "MongoNetworkError")]
              /\ Settle(r, Done(rq), FALSE, FALSE)
              /\ UNCHANGED <<store, fresh>>
         ELSE /\ store' = Append(store, d)
              /\ res' = [res EXCEPT ![r] = Record(201, d)]
              /\ Settle(r, Done(rq), TRUE, TRUE)
              /\ fresh' = [fresh EXCEPT ![d.id] = <<d>>]
  /\ UNCHANGED <<nextId, now, strictArrays, deleted>>

(***************************************************************************)
(* getAllRecipes                                                           *)
(***************************************************************************)
\* .skip((page - 1) * size)
SkipPages(page, size) == JsMul(page, size)

Skip(page, size) == JsMul(JsSub(page, Num(1)), size)

\* .limit(Number(size))
LimitNone(size) == Num(0)

Limit(size) == ToNumber(size)

\* Math.ceil(totalRecipes / size)
TotalPagesFloor(total, size) ==
  LET y == ToNumber(size)
  IN  IF y.t = "num" /\ y.n > 0 THEN Num(total \div y.n) ELSE JsCeilDiv(total, size)

TotalPages(total, size) == JsCeilDiv(total, size)

\* const { page = 1, size = 10 } = req.query
getAllRecipes(r, page, size) ==
  /\ Begin(r, [NoRequest EXCEPT
                 !.op = "list", !.pc = "find",
                 !.page = IF page = Undef THEN Num(DefaultPage) ELSE page,
                 !.size = IF size = Undef THEN Num(DefaultSize) ELSE size])
  /\ UNCHANGED <<store, nextId, now, strictArrays, deleted, fresh>>

\* await Recipe.find().skip(...).limit(...) settles.
findDoneAnswers(r, fault) ==
  /\ req[r].pc = "find"
  /\ LET rq    == req[r]
         skip  == Skip(rq.page, rq.size)
         limit == Limit(rq.size)
         found == SkipLimit(store, skip.n, limit.n)
     IN  IF QueryRejected(skip, limit) \/ fault
         THEN /\ res' = [res EXCEPT ![r] =
                           Failure("Error fetching recipes", "MongoServerError")]
              /\ Settle(r, Done(rq), FALSE, FALSE)
         ELSE /\ res' = [res EXCEPT ![r] =
                           Json([NoResponse EXCEPT !.status = 200,
                                              !.recipes = found,
                                              !.totalRecipes = Len(found),
                                              !.page = ToJson(rq.page),
                                              !.totalPages = Num(1)])]
              /\ Settle(r, Done(rq), TRUE, FALSE)
  /\ UNCHANGED <<store, nextId, now, strictArrays, deleted, fresh>>

findDone(r, fault) ==
  /\ req[r].pc = "find"
  /\ LET rq    == req[r]
         skip  == Skip(rq.page, rq.size)
         limit == Limit(rq.size)
     IN  IF QueryRejected(skip, limit)
         THEN /\ res' = [res EXCEPT ![r] =
                           Failure("Error fetching recipes", "MongoServerError")]
              /\ Settle(r, Done(rq), FALSE, FALSE)
         ELSE IF fault
         THEN /\ res' = [res EXCEPT ![r] =
                           Failure("Error fetching recipes", "MongoNetworkError")]
              /\ Settle(r, Done(rq), FALSE, FALSE)
         ELSE /\ Settle(r, [rq EXCEPT !.pc = "count",
                                      !.recipes = SkipLimit(store, skip.n, limit.n)],
                        TRUE, FALSE)
              /\ UNCHANGED res
  /\ UNCHANGED <<store, nextId, now, strictArrays, deleted, fresh>>

\* await Recipe.countDocuments() settles; then res.json({ recipes,
\* totalRecipes, page, totalPages }), or the catch block.
countDoneEscapes(r, fault) ==
  /\ req[r].pc = "count"
  /\ LET rq    == req[r]
         total == Len(store)
         pages == TotalPages(total, rq.size)
     IN  IF fault
         THEN /\ Settle(r, Done(rq), FALSE, FALSE)
              /\ UNCHANGED res
         ELSE /\ res' = [res EXCEPT ![r] =
                           Json([NoResponse EXCEPT !.status = 200,
                                              !.recipes = rq.recipes,
                                              !.totalRecipes = total,
                                              !.page = ToJson(rq.page),
                                              !.totalPages = ToJson(pages)])]
              /\ Settle(r, Done(rq), TRUE, FALSE)
  /\ UNCHANGED <<store, nextId, now, strictArrays, deleted, fresh>>

countDone(r, fault) ==
  /\ req[r].pc = "count"
  /\ LET rq    == req[r]
         total == Len(store)
         pages == TotalPages(total, rq.size)
     IN  IF fault
         THEN /\ res' = [res EXCEPT ![r] =
                           Failure("Error fetching recipes", "MongoNetworkError")]
              /\ Settle(r, Done(rq), FALSE, FALSE)
         ELSE /\ res' = [res EXCEPT ![r] =
                           Json([NoResponse EXCEPT !.status = 200,
                                              !.recipes = rq.recipes,
                                              !.totalRecipes = total,
                                              !.page = ToJson(rq.page),
                                              !.totalPages = ToJson(pages)])]
              /\ Settle(r, Done(rq), TRUE, FALSE)
  /\ UNCHANGED <<store, nextId, now, strictArrays, deleted, fresh>>

(***************************************************************************)
(* getRecipeById                                                           *)
(***************************************************************************)
getRecipeById(r, id) ==
  /\ Begin(r, [NoRequest EXCEPT !.op = "get", !.pc = "findById", !.id = id])
  /\ UNCHANGED <<store, nextId, now, strictArrays, deleted, fresh>>

\* await Recipe.findById(req.params.id) settles; then 404, res.json(recipe),
\* or the catch block.
findByIdDone(r, fault) ==
  /\ req[r].pc = "findById"
  /\ LET rq  == req[r]
         oid == CastObjectId(rq.id)
         hit == IF oid = <<>> THEN <<>> ELSE FindById(store, oid[1])
     IN  IF oid = <<>>
         THEN /\ res' = [res EXCEPT ![r] =
                           Failure("Error fetching recipe", "CastError")]
              /\ Settle(r, Done(rq), FALSE, FALSE)
         ELSE IF fault
         THEN /\ res' = [res EXCEPT ![r] =
                           Failure("Error fetching recipe", "MongoNetworkError")]
              /\ Settle(r, Done(rq), FALSE, FALSE)
         ELSE /\ res' = [res EXCEPT ![r] =
                           IF hit = <<>> THEN NotFound ELSE Record(200, hit[1])]
              /\ Settle(r, Done(rq), TRUE, FALSE)
  /\ UNCHANGED <<store, nextId, now, strictArrays, deleted, fresh>>

(***************************************************************************)
(* updateRecipe                                                            *)
(***************************************************************************)
updateRecipe(r, id, b) ==
  /\ Begin(r, [NoRequest EXCEPT !.op = "update", !.pc = "findByIdAndUpdate",
                                !.id = id, !.body = b])
  /\ UNCHANGED <<store, nextId, now, strictArrays, deleted, fresh>>

\* await Recipe.findByIdAndUpdate(req.params.id, req.body, { new: true })
\* settles; then 404, res.json(updatedRecipe), or the catch block.
findByIdAndUpdateDone(r, fault) ==
  /\ req[r].pc = "findByIdAndUpdate"
  /\ LET rq  == req[r]
         oid == CastObjectId(rq.id)
         hit == IF oid = <<>> THEN <<>> ELSE FindById(store, oid[1])
     IN  IF oid = <<>> \/ CastFails(rq.body)
         THEN /\ res' = [res EXCEPT ![r] =
                           Failure("Error updating recipe", "CastError")]
              /\ Settle(r, Done(rq), FALSE, FALSE)
              /\ UNCHANGED <<store, fresh>>
         ELSE IF fault
         THEN /\ res' = [res EXCEPT ![r] =
                           Failure("Error updating recipe", "MongoNetworkError")]
              /\ Settle(r, Done(rq), FALSE, FALSE)
              /\ UNCHANGED <<store, fresh>>
         ELSE IF hit = <<>>
         THEN /\ res' = [res EXCEPT ![r] = NotFound]
              /\ Settle(r, Done(rq), TRUE, FALSE)
              /\ UNCHANGED <<store, fresh>>
         ELSE LET d == ApplyUpdate(hit[1], rq.body)
              IN  /\ store' = Replace(store, oid[1], d)
                  /\ res' = [res EXCEPT ![r] = Record(200, Returned(hit[1], d))]
                  /\ Settle(r, Done(rq), TRUE, TRUE)
                  /\ fresh' = [fresh EXCEPT ![oid[1]] = <<>>]
  /\ UNCHANGED <<nextId, now, strictArrays, deleted>>

(***************************************************************************)
(* deleteRecipe                                                            *)
(***************************************************************************)
deleteRecipe(r, id) ==
  /\ Begin(r, [NoRequest EXCEPT !.op = "delete", !.pc = "findByIdAndDelete",
                                !.id = id])
  /\ UNCHANGED <<store, nextId, now, strictArrays, deleted, fresh>>

\* await Recipe.findByIdAndDelete(req.params.id) settles; then 404,
\* res.json({ message: 'Recipe deleted' }), or the catch block.
findByIdAndDeleteDone(r, fault) ==
  /\ req[r].pc = "findByIdAndDelete"
  /\ LET rq  == req[r]
         oid == CastObjectId(rq.id)
         hit == IF oid = <<>> THEN <<>> ELSE FindById(store, oid[1])
     IN  IF oid = <<>>
         THEN /\ res' = [res EXCEPT ![r] =
                           Failure("Error deleting recipe", "CastError")]
              /\ Settle(r, Done(rq), FALSE, FALSE)
              /\ UNCHANGED <<store, deleted, fresh>>
         ELSE IF fault
         THEN /\ res' = [res EXCEPT ![r] =
                           Failure("Error deleting recipe", "MongoNetworkError")]
              /\ Settle(r, Done(rq), FALSE, FALSE)
              /\ UNCHANGED <<store, deleted, fresh>>
         ELSE IF hit = <<>>
         THEN /\ res' = [res EXCEPT ![r] = NotFound]
              /\ Settle(r, Done(rq), TRUE, FALSE)
              /\ UNCHANGED <<store, deleted, fresh>>
         ELSE /\ store' = Without(store, oid[1])
              /\ res' = [res EXCEPT ![r] =
                           Json([NoResponse EXCEPT !.status = 200,
                                              !.message = "Recipe deleted"])]
              /\ Settle(r, Done(rq), TRUE, TRUE)
              /\ deleted' = deleted \cup {oid[1]}
              /\ fresh' = [fresh EXCEPT ![oid[1]] = <<>>]
  /\ UNCHANGED <<nextId, now, strictArrays>>

(***************************************************************************)
(* The error-handling middleware                                           *)
(***************************************************************************)
\* express.json() cannot parse the body of a POST or PUT and passes the
\* error on: no handler runs, the middleware registered after the routes
\* answers.
errorMiddleware(r) ==
  /\ Free(r)
  /\ req' = [req EXCEPT ![r] = [NoRequest EXCEPT !.op = "parse", !.pc = "done"]]
  /\ res' = [res EXCEPT ![r] = SomethingWentWrong]
  /\ UNCHANGED <<store, nextId, now, strictArrays, deleted, fresh>>

(***************************************************************************)
(* One client at a time, every request answered before the next is sent.   *)
(* Nobody pages through the collection.                                    *)
(***************************************************************************)
SomePages == {Undef, Str(<<"2">>)}
SomeSizes == {Undef, Str(<<"1">>)}

NoPaging == UNCHANGED <<scan, walk>>

Next ==
  \/ \E b \in CreateBodies : createRecipe(1, b) /\ NoPaging
  \/ \E f \in BOOLEAN : saveDone(1, f) /\ NoPaging
  \/ \E p \in SomePages, s \in SomeSizes : getAllRecipes(1, p, s) /\ NoPaging
  \/ \E f \in BOOLEAN : findDone(1, f) /\ NoPaging
  \/ \E f \in BOOLEAN : countDone(1, f) /\ NoPaging
  \/ \E id \in Paths : getRecipeById(1, id) /\ NoPaging
  \/ \E f \in BOOLEAN : findByIdDone(1, f) /\ NoPaging
  \/ \E id \in Paths, b \in UpdateBodies : updateRecipe(1, id, b) /\ NoPaging
  \/ \E f \in BOOLEAN : findByIdAndUpdateDone(1, f) /\ NoPaging
  \/ \E id \in Paths : deleteRecipe(1, id) /\ NoPaging
  \/ \E f \in BOOLEAN : findByIdAndDeleteDone(1, f) /\ NoPaging
  \/ errorMiddleware(1) /\ NoPaging

Spec == Init /\ [][Next]_vars

(***************************************************************************)
(* The server starts on a collection that earlier runs have filled:        *)
(* connectDB() opens the database that is there.  One client lists it,     *)
(* with and without page and size, and adds recipes.                       *)
(***************************************************************************)
\* n records of earlier runs; their ids are not among those this run's
\* driver generates.
Stocked(n) == [i \in 1..n |-> Document(Soup, MaxId + i, 0)]

InitStocked ==
  /\ store \in {Stocked(n) : n \in 0..MaxStock}
  /\ nextId = 1
  /\ now = 0
  /\ strictArrays \in BOOLEAN
  /\ req = [r \in Slots |-> NoRequest]
  /\ res = [r \in Slots |-> NoResponse]
  /\ deleted = {}
  /\ fresh = [i \in 1..MaxId |-> <<>>]
  /\ scan = NoScan
  /\ walk = NoWalk

StockedNext ==
  \/ \E p \in SomePages, s \in SomeSizes : getAllRecipes(1, p, s) /\ NoPaging
  \/ \E f \in BOOLEAN : findDone(1, f) /\ NoPaging
  \/ \E f \in BOOLEAN : countDone(1, f) /\ NoPaging
  \/ createRecipe(1, Soup) /\ NoPaging
  \/ \E f \in BOOLEAN : saveDone(1, f) /\ NoPaging

SpecStocked == InitStocked /\ [][StockedNext]_vars

(***************************************************************************)
(* A client pages through the collection with GET /recipes?page=&size=     *)
(* and, between pages, recipes are created and deleted.  `scan` is what    *)
(* the client has collected: page 1 starts a collection, the next page of  *)
(* the same size extends it, any change of the store discards it, and a    *)
(* page whose two store reads straddle a change is not counted.            *)
(***************************************************************************)
Paged(p, s, recipes, total) ==
  IF p = 1
  THEN [size |-> s, next |-> 2, total |-> total, seen |-> recipes]
  ELSE IF scan.size = s /\ scan.next = p /\ p <= scan.total
  THEN [scan EXCEPT !.next = p + 1, !.seen = @ \o recipes]
  ELSE scan

PagingClient ==
  /\ UNCHANGED walk
  /\ LET rq == req[1]
         p  == ToNumber(rq.page)
         s  == ToNumber(rq.size)
     IN  scan' =
           IF store' # store THEN NoScan
           ELSE IF /\ rq.pc = "count" /\ res'[1].status = 200
                   /\ rq.mixed # "write"
                   /\ p.t = "num" /\ p.n >= 1
                   /\ s.t = "num" /\ s.n >= 1
           THEN Paged(p.n, s.n, res'[1].recipes, res'[1].totalPages.n)
           ELSE scan

PagingNext ==
  \/ \E p \in PageParams, s \in SizeParams : getAllRecipes(1, p, s) /\ PagingClient
  \/ \E f \in BOOLEAN : findDone(1, f) /\ PagingClient
  \/ \E f \in BOOLEAN : countDone(1, f) /\ PagingClient
  \/ \E b \in {Soup, Stew} : createRecipe(1, b) /\ PagingClient
  \/ \E f \in BOOLEAN : saveDone(1, f) /\ PagingClient
  \/ \E id \in Paths : deleteRecipe(1, id) /\ PagingClient
  \/ \E f \in BOOLEAN : findByIdAndDeleteDone(1, f) /\ PagingClient

SpecPaging == Init /\ [][PagingNext]_vars

(***************************************************************************)
(* One client at a time on a new collection.  `walk` follows the client    *)
(* through POST /recipes with the Soup, GET /recipes?page=1&size=1, PUT    *)
(* /recipes/<id> with { cookingTime: 15 }, DELETE /recipes/<id> and GET    *)
(* /recipes/<id>, where <id> is the id the POST was answered: walk.n is    *)
(* the number of these requests sent so far, in this order, with no other  *)
(* request before or between them and no connection lost; any other        *)
(* request, and any lost connection, ends the walk.                        *)
(***************************************************************************)
OffWalk == [n |-> 0 - 1, id |-> 0]

\* What the client put into a request: method and route, path, body, query.
Sent(rq) ==
  [op |-> rq.op, id |-> rq.id, body |-> rq.body, page |-> rq.page,
   size |-> rq.size]

WalkRequest(k, id) ==
  LET none == Sent(NoRequest)
  IN  CASE k = 1 -> [none EXCEPT !.op = "create", !.body = Soup]
        [] k = 2 -> [none EXCEPT !.op = "list", !.page = Str(<<"1">>),
                                 !.size = Str(<<"1">>)]
        [] k = 3 -> [none EXCEPT !.op = "update", !.id = HexPath(id),
                                 !.body = [EmptyBody EXCEPT
                                             !.cookingTime = <<Num(15)>>]]
        [] k = 4 -> [none EXCEPT !.op = "delete", !.id = HexPath(id)]
        [] k = 5 -> [none EXCEPT !.op = "get", !.id = HexPath(id)]

WalkingClient ==
  /\ UNCHANGED scan
  /\ walk' =
       IF Free(1)
       THEN IF walk.n \in 0..4 /\ Sent(req'[1]) = WalkRequest(walk.n + 1, walk.id)
            THEN [walk EXCEPT !.n = @ + 1]
            ELSE OffWalk
       ELSE IF res'[1].error = "MongoNetworkError"
            THEN OffWalk
            ELSE IF walk.n = 1 /\ res'[1].status = 201
            THEN [walk EXCEPT !.id = res'[1].doc[1].id]
            ELSE walk

WalkPaths == {HexPath(1), HexPath(2)}

WalkUpdateBodies ==
  {[EmptyBody EXCEPT !.cookingTime = <<Num(15)>>],
   [EmptyBody EXCEPT !.name = <<"Stew">>]}

WalkNext ==
  \/ \E b \in {Soup, Stew} : createRecipe(1, b) /\ WalkingClient
  \/ \E f \in BOOLEAN : saveDone(1, f) /\ WalkingClient
  \/ \E p \in {Undef, Str(<<"1">>)}, s \in {Undef, Str(<<"1">>)} :
       getAllRecipes(1, p, s) /\ WalkingClient
  \/ \E f \in BOOLEAN : findDone(1, f) /\ WalkingClient
  \/ \E f \in BOOLEAN : countDone(1, f) /\ WalkingClient
  \/ \E id \in WalkPaths : getRecipeById(1, id) /\ WalkingClient
  \/ \E f \in BOOLEAN : findByIdDone(1, f) /\ WalkingClient
  \/ \E id \in WalkPaths, b \in WalkUpdateBodies :
       updateRecipe(1, id, b) /\ WalkingClient
  \/ \E f \in BOOLEAN : findByIdAndUpdateDone(1, f) /\ WalkingClient
  \/ \E id \in WalkPaths : deleteRecipe(1, id) /\ WalkingClient
  \/ \E f \in BOOLEAN : findByIdAndDeleteDone(1, f) /\ WalkingClient

SpecWalk == Init /\ [][WalkNext]_vars

(***************************************************************************)
(* Two requests in flight at once: the handlers' steps interleave at the   *)
(* awaits, in every order.  A request takes the first free slot (slots are *)
(* interchangeable); the connection to the store fails for find() only.    *)
(***************************************************************************)
ConcUpdateBodies ==
  {[EmptyBody EXCEPT !.cookingTime = <<Num(15)>>],
   [EmptyBody EXCEPT !.name = <<"Stew">>, !.cookingTime = <<Num(20)>>]}

FirstFree(r) == Free(r) /\ \A q \in Slots : Free(q) => r <= q

ConcNext ==
  \/ \E r \in Slots : FirstFree(r) /\ createRecipe(r, Soup) /\ NoPaging
  \/ \E r \in Slots : saveDone(r, FALSE) /\ NoPaging
  \/ \E r \in Slots : FirstFree(r) /\ getAllRecipes(r, Undef, Str(<<"2">>)) /\ NoPaging
  \/ \E r \in Slots, f \in BOOLEAN : findDone(r, f) /\ NoPaging
  \/ \E r \in Slots : countDone(r, FALSE) /\ NoPaging
  \/ \E r \in Slots : FirstFree(r) /\ getRecipeById(r, HexPath(1)) /\ NoPaging
  \/ \E r \in Slots : findByIdDone(r, FALSE) /\ NoPaging
  \/ \E r \in Slots, b \in ConcUpdateBodies :
       FirstFree(r) /\ updateRecipe(r, HexPath(1), b) /\ NoPaging
  \/ \E r \in Slots : findByIdAndUpdateDone(r, FALSE) /\ NoPaging
  \/ \E r \in Slots : FirstFree(r) /\ deleteRecipe(r, HexPath(1)) /\ NoPaging
  \/ \E r \in Slots : findByIdAndDeleteDone(r, FALSE) /\ NoPaging

SpecConc == Init /\ [][ConcNext]_vars

(***************************************************************************)
(* Vocabulary of the properties.                                           *)
(***************************************************************************)
\* The request on slot r has been answered, and not by the catch block on
\* a lost connection.
Answered(r, op) ==
  /\ req[r].op = op
  /\ req[r].pc = "done"
  /\ res[r].error # "MongoNetworkError"

\* Positions of the record with this id in a sequence of records.
Places(docs, id) == {i \in 1..Len(docs) : docs[i].id = id}

(***************************************************************************)
(* C1.  Pagination partition: whenever a client has listed pages           *)
(* 1..totalPages of one positive size with no change of the collection in  *)
(* between, the pages together hold every record of the collection exactly *)
(* once: none twice, none missing.                                         *)
(***************************************************************************)
ScanComplete == scan.size > 0 /\ scan.next > scan.total

\* C1: a completed scan of pages 1..totalPages holds every record of the
\* collection exactly once.
C1_PaginationPartition ==
  ScanComplete =>
    /\ Len(scan.seen) = Len(store)
    /\ \A i \in 1..Len(store) :
         /\ Cardinality(Places(scan.seen, store[i].id)) = 1
         /\ \E j \in 1..Len(scan.seen) : scan.seen[j] = store[i]

\* A scan of three records in two pages of size 2 has been completed.
C1_Witness ==
  /\ ScanComplete
  /\ scan.size = 2
  /\ scan.total = 2
  /\ Len(store) = 3

(***************************************************************************)
(* C6.  List result.  As claimed, for every numeric page and size: the     *)
(* answer is 200 and holds the at most `size` records that follow the      *)
(* first (page - 1) * size, totalRecipes is the number of records, page is *)
(* echoed, and totalPages is ceil(totalRecipes / size).                    *)
(* The code does this for page >= 1 and size >= 1 only (C6_ListResult):    *)
(* size 0 lifts the limit and leaves totalPages without a value, page 0    *)
(* asks the store for a negative skip.                                     *)
(***************************************************************************)
ListResult(r) ==
  LET p == ToNumber(req[r].page).n
      s == ToNumber(req[r].size).n
      k == (p - 1) * s
      a == res[r]
  IN  /\ a.status = 200
      /\ Len(a.recipes) <= s
      /\ k >= 0
      /\ \A i \in 1..Len(a.recipes) :
           k + i <= Len(store) /\ a.recipes[i] = store[k + i]
      /\ Len(a.recipes) = s \/ k + Len(a.recipes) >= Len(store)
      /\ a.totalRecipes = Len(store)
      /\ a.page = req[r].page
      /\ a.totalPages.t = "num"
      /\ a.totalPages.n * s >= a.totalRecipes
      /\ (a.totalPages.n - 1) * s < a.totalRecipes

NumericList(r) ==
  /\ Answered(r, "list")
  /\ ToNumber(req[r].page).t = "num"
  /\ ToNumber(req[r].size).t = "num"

\* C6 as claimed: the list result is as described for every numeric page
\* and size.
C6_ListResult_AsClaimed ==
  \A r \in Slots : NumericList(r) => ListResult(r)

\* C6 as the code has it: the list result is as described for page >= 1 and
\* size >= 1.
C6_ListResult ==
  \A r \in Slots :
    (/\ NumericList(r)
     /\ ToNumber(req[r].page).n >= 1
     /\ ToNumber(req[r].size).n >= 1) => ListResult(r)

\* Page 2 of size 2 over three records: one record, two pages.
C6_Witness ==
  /\ Answered(1, "list")
  /\ req[1].page = Str(<<"2">>)
  /\ req[1].size = Str(<<"2">>)
  /\ Len(store) = 3
  /\ Len(res[1].recipes) = 1
  /\ res[1].totalPages = Num(2)

(***************************************************************************)
(* C2.  Create/get round trip: a POST of a valid body (all four business   *)
(* fields, of the schema's types) answers 201 with a record holding the    *)
(* body's fields, an id no other record has and a createdAt, and a later   *)
(* GET of that id, with no update or delete of it in between, answers 200  *)
(* with the record the POST answered.                                      *)
(***************************************************************************)
ValidBody(b) ==
  /\ b.name # <<>>
  /\ b.ingredients # <<>> /\ Len(b.ingredients[1]) > 0
  /\ b.instructions # <<>>
  /\ b.cookingTime # <<>> /\ b.cookingTime[1].t = "num"

\* C2: a valid POST answers 201 with the body's fields plus a new id and
\* createdAt; a later GET of the untouched id answers 200 with that record.
C2_CreateGetRoundTrip ==
  \A r \in Slots :
    /\ (Answered(r, "create") /\ ValidBody(req[r].body)) =>
         /\ res[r].status = 201
         /\ res[r].doc # <<>>
         /\ LET d == res[r].doc[1]
                b == req[r].body
            IN  /\ d.name = b.name[1]
                /\ d.ingredients = b.ingredients[1]
                /\ d.instructions = b.instructions[1]
                /\ d.cookingTime = b.cookingTime[1].n
                /\ d.createdAt > 0
                /\ d.id \notin deleted
                /\ Cardinality(Places(store, d.id)) = 1
                /\ \A i \in Places(store, d.id) : store[i] = d
    /\ (/\ Answered(r, "get")
        /\ req[r].id.hex
        /\ req[r].id.n \in DOMAIN fresh
        /\ fresh[req[r].id.n] # <<>>) =>
         /\ res[r].status = 200
         /\ res[r].doc = fresh[req[r].id.n]

\* The second of two created records has been fetched as created.
C2_Witness ==
  /\ Answered(1, "get")
  /\ req[1].id = HexPath(2)
  /\ fresh[2] # <<>>
  /\ res[1].status = 200
  /\ res[1].doc = fresh[2]
  /\ Len(store) = 2

(***************************************************************************)
(* C3.  Delete then get: a DELETE of an id that resolves to a record       *)
(* answers 200 with 'Recipe deleted' and removes that record and no other; *)
(* every later GET of the id answers 404.                                  *)
(***************************************************************************)
DeleteAnswers(r) ==
  /\ req[r].pc = "findByIdAndDelete"
  /\ req'[r].pc = "done"
  /\ res'[r].error # "MongoNetworkError"

\* C3: DELETE of an existing id answers 200 'Recipe deleted' and removes
\* exactly that record; every later GET of it answers 404.
C3_DeleteThenGet ==
  /\ [][\A r \in Slots :
          (/\ DeleteAnswers(r)
           /\ req[r].id.hex
           /\ req[r].id.n \in Ids(store)) =>
            /\ res'[r].status = 200
            /\ res'[r].message = "Recipe deleted"
            /\ Ids(store') = Ids(store) \ {req[r].id.n}
            /\ Len(store') = Len(store) - 1
            /\ \A i \in 1..Len(store) :
                 store[i].id # req[r].id.n =>
                   \E j \in 1..Len(store') : store'[j] = store[i]]_vars
  /\ [](\A r \in Slots :
          (/\ Answered(r, "get")
           /\ req[r].id.hex
           /\ req[r].id.n \in deleted) => res[r].status = 404)

\* A deleted id has been fetched, with another record still stored.
C3_Witness ==
  /\ Answered(1, "get")
  /\ req[1].id = HexPath(1)
  /\ 1 \in deleted
  /\ res[1].status = 404
  /\ Len(store) = 1

(***************************************************************************)
(* C4.  Merge update: a PUT on an id that resolves changes only the        *)
(* supplied fields of that record; its other fields, id, createdAt and     *)
(* every other record stay as they are, and the 200 answer is the record   *)
(* as stored after the update.                                             *)
(***************************************************************************)
UpdateAnswers(r) ==
  /\ req[r].pc = "findByIdAndUpdate"
  /\ req'[r].pc = "done"

Resolves(path, docs) == path.hex /\ path.n \in Ids(docs)

\* C5: GET with an id that resolves to no record answers 404.
C5_UnknownIdNotFound ==
  \A r \in Slots :
    (Answered(r, "get") /\ ~Resolves(req[r].id, store)) => res[r].status = 404

(***************************************************************************)
(* C7.  PUT and DELETE on an id that resolves to no record answer 404 and  *)
(* leave the collection as it is.  (Bodies are of the schema's types.)     *)
(* The collection is indeed untouched, but a path segment that is no       *)
(* ObjectId is answered 500, as in C5.                                     *)
(***************************************************************************)
\* C7: PUT and DELETE with an id that resolves to no record answer 404 and
\* leave the collection unchanged.
C7_UnknownIdUpdateDelete ==
  [][\A r \in Slots :
       (/\ \/ DeleteAnswers(r)
           \/ UpdateAnswers(r) /\ res'[r].error # "MongoNetworkError"
                               /\ ~CastFails(req[r].body)
        /\ ~Resolves(req[r].id, store)) =>
         /\ res'[r].status = 404
         /\ store' = store]_vars

(***************************************************************************)
(* C8.  Create failure: whenever save() fails, the answer is 500 with      *)
(* 'Error creating recipe' and the error's own message, and the collection *)
(* is as before; a body lacking name, instructions or cookingTime is such  *)
(* a failure, a validation error.                                          *)
(***************************************************************************)
SaveAnswers(r) ==
  /\ req[r].pc = "save"
  /\ req'[r].pc = "done"

\* C8: a failed save() is answered 500 with the error's message and adds
\* no record.
C8_CreateFailure ==
  [][\A r \in Slots :
       SaveAnswers(r) =>
         /\ (\/ req[r].body.name = <<>>
             \/ req[r].body.instructions = <<>>
             \/ req[r].body.cookingTime = <<>>) =>
              /\ res'[r].status = 500
              /\ res'[r].error = "ValidationError"
         /\ res'[r].status # 201 =>
              /\ res'[r].status = 500
              /\ res'[r].message = "Error creating recipe"
              /\ res'[r].error \in {"ValidationError", "MongoNetworkError"}
              /\ res'[r].doc = <<>>
              /\ store' = store
         /\ res'[r].status = 201 => Len(store') = Len(store) + 1]_vars

\* A body without name has been refused while a record is stored.
C8_Witness ==
  /\ req[1].op = "create"
  /\ req[1].pc = "done"
  /\ req[1].body.name = <<>>
  /\ res[1].status = 500
  /\ res[1].error = "ValidationError"
  /\ Len(store) = 1

(***************************************************************************)
(* C9.  As claimed: every handler makes exactly one awaited store call per *)
(* request, so nothing of another request comes between two store accesses *)
(* of one request.  The code (C9_StoreCalls): create, get-by-id, update    *)
(* and delete make exactly one; list makes two, find and then              *)
(* countDocuments (one only if find fails), and another request's store    *)
(* operation can come between them.                                        *)
(***************************************************************************)
\* C9 as claimed: every answered request made exactly one awaited store
\* call, with nothing of another request in between.
C9_SingleStoreCall_AsClaimed ==
  \A r \in Slots :
    req[r].pc = "done" => req[r].calls = 1 /\ req[r].mixed = "none"

\* C9 as the code has it: one awaited store call for create, get-by-id,
\* update and delete; two for list (one if find fails).
C9_StoreCalls ==
  \A r \in Slots :
    /\ (req[r].pc = "done" /\ req[r].op # "list") =>
         req[r].calls = 1 /\ req[r].mixed = "none"
    /\ (req[r].pc = "done" /\ req[r].op = "list") =>
         /\ req[r].calls \in {1, 2}
         /\ req[r].calls = 1 => res[r].status = 500
    /\ req[r].pc \in {"save", "find", "findById", "findByIdAndUpdate",
                      "findByIdAndDelete"} => req[r].calls = 0
    /\ req[r].pc = "count" => req[r].calls = 1

\* A list has been answered 200 after another request's write came between
\* its find and its countDocuments.
C9_Witness ==
  /\ req[1].op = "list"
  /\ req[1].pc = "done"
  /\ res[1].status = 200
  /\ req[1].calls = 2
  /\ req[1].mixed = "write"

(***************************************************************************)
(* C10.  Concurrent updates are last-write-wins: an update of an existing  *)
(* id is applied in one step whatever else is in flight, is answered 200   *)
(* with the record as stored after it, and leaves the supplied fields at   *)
(* its own values; the other request in flight is not disturbed.  So when  *)
(* two updates of one id have both been answered, the stored record is the *)
(* answer of one of them, the one applied last, and holds that update's    *)
(* values.                                                                 *)
(***************************************************************************)
Supplied(b, d) ==
  /\ b.name # <<>> => d.name = b.name[1]
  /\ b.ingredients # <<>> => d.ingredients = b.ingredients[1]
  /\ b.instructions # <<>> => d.instructions = b.instructions[1]
  /\ b.cookingTime # <<>> => d.cookingTime = b.cookingTime[1].n

BothUpdated ==
  /\ Answered(1, "update") /\ res[1].status = 200
  /\ Answered(2, "update") /\ res[2].status = 200
  /\ req[1].id = req[2].id
  /\ Resolves(req[1].id, store)

\* C10: concurrent updates of one id are each applied whole and answered
\* 200, and the stored record holds the values of the one applied last.
C10_LastWriteWins ==
  /\ [][\A r \in Slots :
          (UpdateAnswers(r) /\ Resolves(req[r].id, store)) =>
            /\ res'[r].status = 200
            /\ Resolves(req[r].id, store')
            /\ \A i \in Places(store', req[r].id.n) :
                 /\ res'[r].doc = <<store'[i]>>
                 /\ Supplied(req[r].body, store'[i])
            /\ \A q \in Slots \ {r} :
                 /\ res'[q] = res[q]
                 /\ req'[q].pc = req[q].pc
                 /\ req'[q].body = req[q].body]_vars
  /\ [](BothUpdated =>
          /\ \A r \in Slots : Supplied(req[r].body, res[r].doc[1])
          /\ \E r \in Slots :
               \A i \in Places(store, req[r].id.n) :
                 res[r].doc = <<store[i]>> /\ Supplied(req[r].body, store[i]))

\* { cookingTime: 15 } was in flight when { name: 'Stew', cookingTime: 20 }
\* was applied to the same record, and was applied after it.
C10_Witness ==
  /\ BothUpdated
  /\ req[1].overtaken
  /\ req[1].body = [EmptyBody EXCEPT !.cookingTime = <<Num(15)>>]
  /\ req[2].body = [EmptyBody EXCEPT !.name = <<"Stew">>, !.cookingTime = <<Num(20)>>]
  /\ res[2].doc[1].cookingTime = 20
  /\ \A i \in Places(store, req[1].id.n) :
       store[i].name = "Stew" /\ store[i].cookingTime = 15

(***************************************************************************)
(* C11.  Local failure handling: a request that reached one of the five    *)
(* handlers is answered by that handler.  Whatever the store call does,    *)
(* the answer is 200, 201, 404 or 500; it is 500 exactly when the call     *)
(* failed, and then it carries the handler's own message and the error's   *)
(* text.  The answer of the error-handling middleware goes only to         *)
(* requests that reached no handler.                                       *)
(***************************************************************************)
Handlers == {"create", "list", "get", "update", "delete"}

HandlerMessage(op) ==
  CASE op = "create" -> "Error creating recipe"
    [] op = "list"   -> "Error fetching recipes"
    [] op = "get"    -> "Error fetching recipe"
    [] op = "update" -> "Error updating recipe"
    [] op = "delete" -> "Error deleting recipe"

\* C11: every failure of a handler's store call is answered by the handler
\* with 500, its own message and the error's text; none reaches the
\* error-handling middleware and none is left unanswered.
C11_LocalFailureHandling ==
  \A r \in Slots :
    (req[r].pc = "done" /\ req[r].op \in Handlers) =>
      /\ res[r].status \in {200, 201, 404, 500}
      /\ res[r] # SomethingWentWrong
      /\ res[r].status = 500 <=> res[r].error # ""
      /\ res[r].error # "" => res[r].message = HandlerMessage(req[r].op)

\* countDocuments() has failed after find() succeeded, and the list handler
\* has answered.
C11_Witness ==
  /\ req[1].op = "list"
  /\ req[1].pc = "done"
  /\ req[1].calls = 2
  /\ res[1] = Failure("Error fetching recipes", "MongoNetworkError")
  /\ Len(store) = 2

(***************************************************************************)
(* C12.  Default paging: a list request with neither page nor size is      *)
(* answered as page 1 of size 10: the first records of the collection, ten *)
(* of them at most, the number of records, page 1 and the number of pages  *)
(* of ten that hold them all.                                              *)
(***************************************************************************)
\* Neither ?page= nor ?size= was in the query: the handler's page and size
\* are the defaults, numbers, where every supplied value is a text.
Defaulted(r) ==
  /\ req[r].op = "list"
  /\ req[r].page.t = "num"
  /\ req[r].size.t = "num"

\* C12: with page and size absent the list skips nothing, returns at most
\* the first 10 records, and reports page 1 and ceil(totalRecipes / 10)
\* pages.
C12_DefaultPaging ==
  \A r \in Slots :
    (Answered(r, "list") /\ Defaulted(r)) =>
      /\ res[r].status = 200
      /\ res[r].recipes = SubSeq(store, 1, Min(10, Len(store)))
      /\ res[r].totalRecipes = Len(store)
      /\ res[r].page = Num(1)
      /\ res[r].totalPages.t = "num"
      /\ res[r].totalPages.n * 10 >= Len(store)
      /\ (res[r].totalPages.n - 1) * 10 < Len(store)

\* A collection of twelve records has been listed without page and size:
\* ten records came back, of two pages.
C12_Witness ==
  /\ Answered(1, "list")
  /\ Defaulted(1)
  /\ Len(store) = 12
  /\ Len(res[1].recipes) = 10
  /\ res[1].totalPages = Num(2)

(***************************************************************************)
(* C13.  The walk on a new collection.  POST of the Soup is answered 201   *)
(* with the record under a generated id; GET /recipes?page=1&size=1 is     *)
(* answered { recipes: [that record], totalRecipes: 1, page: 1,            *)
(* totalPages: 1 }; PUT of { cookingTime: 15 } is answered the record with *)
(* cookingTime 15 and name 'Soup'; DELETE is answered 'Recipe deleted';    *)
(* GET of the id is answered 404.                                          *)
(***************************************************************************)
\* The answers to the first, third, fourth and fifth request of the walk.
WalkAnswers ==
  /\ walk.n = 1 =>
       /\ res[1].status = 201
       /\ res[1].doc = <<Document(Soup, req[1].newId, req[1].createdAt)>>
       /\ store = res[1].doc
       /\ walk.id = req[1].newId
  /\ walk.n = 3 =>
       /\ res[1].status = 200
       /\ Len(res[1].doc) = 1
       /\ res[1].doc[1].id = walk.id
       /\ res[1].doc[1].cookingTime = 15
       /\ res[1].doc[1].name = "Soup"
       /\ store = res[1].doc
  /\ walk.n = 4 =>
       /\ res[1].status = 200
       /\ res[1].message = "Recipe deleted"
       /\ store = <<>>
  /\ walk.n = 5 =>
       /\ res[1].status = 404
       /\ res[1].message = "Recipe not found"

\* C13: every request of the walk is answered as stated, the list with
\* { recipes: [the record], totalRecipes: 1, page: 1, totalPages: 1 }.
C13_Walk ==
  req[1].pc = "done" =>
    /\ WalkAnswers
    /\ walk.n = 2 =>
         /\ res[1].status = 200
         /\ Len(store) = 1
         /\ store[1].id = walk.id
         /\ res[1].recipes = store
         /\ res[1].totalRecipes = 1
         /\ res[1].page = Num(1)
         /\ res[1].totalPages = Num(1)

(***************************************************************************)
(* C14.  Zero page size: a list request with size 0 is answered 200, not   *)
(* refused; totalRecipes / 0 is infinite, or no number when there are no   *)
(* records, so the answer has null where totalPages is to be.              *)
(***************************************************************************)
\* The size of the request is the number 0 and its page is a number.
ZeroSize(r) ==
  /\ req[r].op = "list"
  /\ ToNumber(req[r].size) = Num(0)
  /\ ToNumber(req[r].page).t = "num"

\* C14: a list with size 0 is answered 200 and its totalPages, a division
\* by zero, is no integer.
C14_ZeroSize ==
  \A r \in Slots :
    (Answered(r, "list") /\ ZeroSize(r)) =>
      /\ res[r].status = 200
      /\ res[r].totalRecipes = Len(store)
      /\ res[r].totalPages.t # "num"
      /\ res[r].totalPages = JsonNull

\* Two records have been listed with size 0.
C14_Witness ==
  /\ Answered(1, "list")
  /\ ZeroSize(1)
  /\ req[1].size = Str(<<"0">>)
  /\ Len(store) = 2
  /\ res[1].totalRecipes = 2
  /\ res[1].totalPages = JsonNull

(***************************************************************************)
(* C15.  Exactly one response per request: once the store call of a        *)
(* request has settled, by returning or by failing, one body has gone out  *)
(* as its response, on the success path, on the 404 path and on the catch  *)
(* path alike; none goes out before.                                       *)
(***************************************************************************)
\* C15: every answered request has been sent exactly one response, and a
\* request waiting for the store none.
C15_OneResponse ==
  \A r \in Slots :
    /\ req[r].pc = "done" =>
         /\ res[r].sent = 1
         /\ res[r].status \in {200, 201, 404, 500}
    /\ req[r].pc # "done" => res[r] = NoResponse

\* Each of get-by-id, update and delete can be answered 404 while a record
\* is stored; here it is the update.
C15_Witness ==
  /\ req[1].op = "update"
  /\ req[1].pc = "done"
  /\ res[1].status = 404
  /\ res[1].sent = 1
  /\ Len(store) = 1

(***************************************************************************)
(* C16.  List response consistency with two requests in flight: in a 200   *)
(* answer to a list of positive page and size, the records returned are no *)
(* more than totalRecipes, and together with the records skipped they are  *)
(* no more than totalRecipes, also while recipes are created and deleted.  *)
(***************************************************************************)
\* C16: a 200 list answer for positive page and size has skipped plus
\* returned records <= totalRecipes, whatever other requests do meanwhile.
C16_ListConsistent ==
  \A r \in Slots :
    LET p == ToNumber(req[r].page)
        s == ToNumber(req[r].size)
    IN  (/\ Answered(r, "list")
         /\ res[r].status = 200
         /\ p.t = "num" /\ p.n >= 1
         /\ s.t = "num" /\ s.n >= 1) =>
          /\ Len(res[r].recipes) <= res[r].totalRecipes
          /\ Len(res[r].recipes) = 0
               \/ (p.n - 1) * s.n + Len(res[r].recipes) <= res[r].totalRecipes

====
